---- MODULE Spec2Model ----
(***************************************************************************)
(* A model of webfactory: the blueprint parser, the component registry,    *)
(* the asset manager, the template processor and the builder that runs     *)
(* them for one blueprint.                                                 *)
(*                                                                         *)
(* Go strings and byte slices are sequences of one-character strings, so   *)
(* splitting, trimming, number parsing and substitution are computed and   *)
(* not assumed.                                                            *)
(***************************************************************************)
EXTENDS Integers, Sequences, FiniteSets, TLC

VARIABLES
    pc,         \* position of the modelled run
    content,    \* blueprint text handed to blueprint.New
    tree,       \* tree returned by blueprint.New
    loaded,     \* Registry.loaded: path -> Component
    nextInst,   \* identity given to the next allocated Component
    calls,      \* storage calls issued so far, in order
    returns,    \* what each Registry call so far returned, in order
    mgr,        \* assets.Manager: css, cssKeys, js, jsKeys
    ingested,   \* components handed to ProcessComponent so far, in order
    proc,       \* Processor: errLines, hasStyles, hasScripts
    tmpl,       \* template under processing (processTemplate run)
    nodeVars,   \* vars of the node under processing
    out,        \* bytes / result produced by the last operation
    written,    \* the calls of Storage.WriteOutput so far, in order
    todo,       \* blueprints Build has still to process
    cur         \* the blueprint under processing

state == <<pc, content, tree, loaded, nextInst, calls, returns, mgr, ingested,
           proc, tmpl, nodeVars, out, written, todo, cur>>

----------------------------------------------------------------------------
(* Go's strings package, on sequences of characters *)

SetMin(S) == CHOOSE x \in S : \A y \in S : x <= y
SetMax(S) == CHOOSE x \in S : \A y \in S : x >= y

EmptyMap == [x \in {} |-> <<>>]

IsSpace(c) == c \in {" ", "\t", "\r", "\n"}

TrimSpace(s) ==
    LET keep == {i \in 1..Len(s) : ~IsSpace(s[i])}
    IN  IF keep = {} THEN <<>> ELSE SubSeq(s, SetMin(keep), SetMax(keep))

HasPrefix(s, p) == Len(s) >= Len(p) /\ SubSeq(s, 1, Len(p)) = p

HasSuffix(s, p) == Len(s) >= Len(p) /\ SubSeq(s, Len(s) - Len(p) + 1, Len(s)) = p

\* strings.IndexByte, 0-based, -1 when absent
IndexByte(s, c) ==
    LET at == {i \in 1..Len(s) : s[i] = c}
    IN  IF at = {} THEN -1 ELSE SetMin(at) - 1

\* bytes.Index / strings.Index, 0-based, -1 when absent
Index(s, sub) ==
    LET at == {i \in 1..(Len(s) - Len(sub) + 1) : SubSeq(s, i, i + Len(sub) - 1) = sub}
    IN  IF at = {} THEN -1 ELSE SetMin(at) - 1

\* strings.Split with a one-character separator
RECURSIVE Split(_, _)
Split(s, c) ==
    LET i == IndexByte(s, c)
    IN  IF i = -1 THEN <<s>>
        ELSE <<SubSeq(s, 1, i)>> \o Split(SubSeq(s, i + 2, Len(s)), c)

\* strings.Join
RECURSIVE Join(_, _)
Join(parts, sep) ==
    IF parts = <<>> THEN <<>>
    ELSE IF Len(parts) = 1 THEN parts[1]
    ELSE parts[1] \o sep \o Join(Tail(parts), sep)

\* strings.Fields
RECURSIVE Fields(_)
Fields(s) ==
    LET keep == {i \in 1..Len(s) : ~IsSpace(s[i])}
    IN  IF keep = {} THEN <<>>
        ELSE LET b  == SetMin(keep)
                 sp == {i \in b..Len(s) : IsSpace(s[i])}
                 e  == IF sp = {} THEN Len(s) + 1 ELSE SetMin(sp)
             IN  <<SubSeq(s, b, e - 1)>> \o Fields(SubSeq(s, e, Len(s)))

\* strings.TrimRight with a one-character cutset
TrimRight(s, c) ==
    LET keep == {i \in 1..Len(s) : s[i] # c}
    IN  IF keep = {} THEN <<>> ELSE SubSeq(s, 1, SetMax(keep))

\* strings.Trim with a one-character cutset
Trim(s, c) ==
    LET keep == {i \in 1..Len(s) : s[i] # c}
    IN  IF keep = {} THEN <<>> ELSE SubSeq(s, SetMin(keep), SetMax(keep))

Digits == <<"0", "1", "2", "3", "4", "5", "6", "7", "8", "9">>

IsDigit(c) == \E d \in 1..10 : Digits[d] = c

DigitVal(c) == (CHOOSE d \in 1..10 : Digits[d] = c) - 1

RECURSIVE DecVal(_)
DecVal(s) == IF s = <<>> THEN 0 ELSE 10 * DecVal(SubSeq(s, 1, Len(s) - 1)) + DigitVal(s[Len(s)])

\* strconv.Atoi: an optional sign, then one or more decimal digits
Atoi(s) ==
    LET body == IF s # <<>> /\ s[1] \in {"+", "-"} THEN Tail(s) ELSE s
    IN  IF body = <<>> \/ \E i \in 1..Len(body) : ~IsDigit(body[i])
        THEN [ok |-> FALSE, val |-> 0]
        ELSE [ok |-> TRUE,
              val |-> IF s[1] = "-" THEN 0 - DecVal(body) ELSE DecVal(body)]

\* strconv.Itoa
RECURSIVE ItoaNat(_)
ItoaNat(n) == IF n < 10 THEN <<Digits[n + 1]>> ELSE ItoaNat(n \div 10) \o <<Digits[(n % 10) + 1]>>

Itoa(v) == IF v < 0 THEN <<"-">> \o ItoaNat(0 - v) ELSE ItoaNat(v)

----------------------------------------------------------------------------
(* package blueprint *)

\* the virtual root's node id (Block.ID of the root)
RootID == 0 - 1

\* parseLine: a block line is exactly two fields, a dotted integer index and a path
parseLine(line, id) ==
    LET l     == TrimSpace(line)
        parts == Fields(l)
        strs  == IF Len(parts) = 2 THEN Split(TrimRight(parts[1], "."), ".") ELSE <<>>
        nums  == [i \in 1..Len(strs) |-> Atoi(strs[i])]
    IN  IF l = <<>> \/ HasPrefix(l, <<"#">>) \/ HasPrefix(l, <<".">>) \/ Len(parts) # 2
           \/ \E i \in 1..Len(nums) : ~nums[i].ok
        THEN [ok |-> FALSE, block |-> [Path |-> <<>>, Index |-> <<>>, ID |-> RootID, Vars |-> EmptyMap]]
        ELSE [ok |-> TRUE,
              block |-> [Path  |-> TrimSpace(parts[2]),
                         Index |-> [i \in 1..Len(nums) |-> nums[i].val],
                         ID    |-> id,
                         Vars  |-> EmptyMap]]

\* the variable-line branch creating a new name without appending the value
addVarMakeOnly(block, line) ==
    LET eq      == IndexByte(line, "=")
        varName == TrimSpace(SubSeq(line, 1, eq))
        name    == Tail(varName)
    IN  IF eq = -1 \/ ~HasPrefix(varName, <<".">>) THEN block
        ELSE [block EXCEPT !.Vars =
                 [n \in DOMAIN block.Vars \cup {name} |->
                     IF n \in DOMAIN block.Vars THEN block.Vars[n] ELSE <<>>]]

\* the variable-line branch of New's loop: append one value to the current block's variable
addVar(block, line) ==
    LET eq      == IndexByte(line, "=")
        varName == TrimSpace(SubSeq(line, 1, eq))
        rest    == SubSeq(line, eq + 2, Len(line))
        keep    == {i \in 1..Len(rest) : ~IsSpace(rest[i])}
        value   == IF keep = {} THEN <<>> ELSE SubSeq(rest, SetMin(keep), Len(rest))
        name    == Tail(varName)
        old     == IF name \in DOMAIN block.Vars THEN block.Vars[name] ELSE <<>>
    IN  IF eq = -1 \/ ~HasPrefix(varName, <<".">>) THEN block
        ELSE [block EXCEPT !.Vars =
                 [n \in DOMAIN block.Vars \cup {name} |->
                     IF n = name THEN Append(old, value) ELSE block.Vars[n]]]

\* New's loop over the lines: the blocks in source order, each with its variables
RECURSIVE scanLines(_, _)
scanLines(lines, blocks) ==
    IF lines = <<>> THEN blocks
    ELSE LET line == TrimSpace(Head(lines))
             p    == parseLine(line, Len(blocks))
         IN  IF HasPrefix(line, <<".">>)
             THEN IF blocks = <<>> THEN scanLines(Tail(lines), blocks)
                  ELSE scanLines(Tail(lines),
                                 [blocks EXCEPT ![Len(blocks)] = addVar(blocks[Len(blocks)], line)])
             ELSE IF p.ok THEN scanLines(Tail(lines), Append(blocks, p.block))
                  ELSE scanLines(Tail(lines), blocks)

\* indexKey with the key taken from the last segment alone
indexKeyLastSegment(index) == IF index = <<>> THEN <<>> ELSE Itoa(index[Len(index)])

\* indexKey: the dotted string of an index
indexKey(index) == Join([i \in 1..Len(index) |-> Itoa(index[i])], <<".">>)

NilTree == [nil |-> TRUE, blocks |-> <<>>, kids |-> EmptyMap]

\* buildTree's attach loop. nodeMap maps a key to a node id; kids maps a node id to
\* its children in attach order; dup is set when a key is met twice (return nil).
RECURSIVE attach(_, _, _)
attach(blocks, i, acc) ==
    IF i > Len(blocks) \/ acc.dup THEN acc
    ELSE LET block     == blocks[i]
             key       == indexKey(block.Index)
             parentKey == indexKey(SubSeq(block.Index, 1, Len(block.Index) - 1))
             parent    == IF Len(block.Index) > 0 /\ parentKey \in DOMAIN acc.nodeMap
                          THEN acc.nodeMap[parentKey] ELSE RootID
         IN  IF key \in DOMAIN acc.nodeMap THEN [acc EXCEPT !.dup = TRUE]
             ELSE attach(blocks, i + 1,
                         [dup     |-> FALSE,
                          nodeMap |-> (key :> block.ID) @@ acc.nodeMap,
                          kids    |-> [n \in DOMAIN acc.kids \cup {block.ID} |->
                                          IF n = block.ID THEN <<>>
                                          ELSE IF n = parent THEN Append(acc.kids[n], block.ID)
                                          ELSE acc.kids[n]]])

\* the less function of sortNodes: root's children by first segment, others by last
sortLess(blocks, node, a, b) ==
    LET iIdx == blocks[a + 1].Index
        jIdx == blocks[b + 1].Index
    IN  IF node = RootID THEN iIdx[1] < jIdx[1]
        ELSE iIdx[Len(iIdx)] < jIdx[Len(jIdx)]

\* sort.Slice: some permutation of the slice in which no element is less than an
\* earlier one; the order of elements that compare equal is not specified
sortSlice(blocks, node, s) ==
    LET n     == Len(s)
        perms == {p \in [1..n -> 1..n] : \A i, j \in 1..n : i # j => p[i] # p[j]}
    IN  {[i \in 1..n |-> s[p[i]]] : p \in
            {q \in perms : \A i, j \in 1..n : i < j => ~sortLess(blocks, node, s[q[j]], s[q[i]])}}

\* sort.Slice where no two elements compare equal: the one sorted order
sortStrict(blocks, node, s) == CHOOSE r \in sortSlice(blocks, node, s) : TRUE

\* buildTree: the trees it can return for the blocks
buildTree(blocks) ==
    LET acc == attach(blocks, 1,
                      [dup |-> FALSE, nodeMap |-> (<<>> :> RootID), kids |-> (RootID :> <<>>)])
    IN  IF blocks = <<>> \/ acc.dup THEN {NilTree}
        ELSE {[nil    |-> FALSE,
               blocks |-> blocks,
               kids   |-> [n \in DOMAIN acc.kids |->
                              IF n = RootID THEN r ELSE sortStrict(blocks, n, acc.kids[n])]] :
                 r \in sortSlice(blocks, RootID, acc.kids[RootID])}

\* blueprint.New: the trees it can return for a text (its error result is always nil)
New(text) == buildTree(scanLines(Split(text, "\n"), <<>>))

----------------------------------------------------------------------------
(* Parsing runs: blueprint.New applied to a bounded set of texts *)

\* most lines of a blueprint text
MaxLines == 3

\* the lines texts are made of: block lines (two of them spell the index of
\* another differently), variable lines, a comment and a malformed line
LineSet ==
    { <<"1", " ", "a">>,
      <<"1", ".", "1", " ", "b">>,
      <<"1", ".", "2", " ", "c">>,
      <<"2", " ", "d">>,
      <<"0", "1", " ", "e">>,
      <<"1", ".", "1", ".", " ", "f">>,
      <<".", "x", "=", "v">>,
      <<".", "x", "=", " ", "w">>,
      <<"#", " ", "3", " ", "g">>,
      <<"x", ".", "1", " ", "h">> }

Texts == {Join(ls, <<"\n">>) : ls \in UNION {[1..n -> LineSet] : n \in 1..MaxLines}}

NoBlueprint == [name |-> <<>>, text |-> <<>>]

NewManager == [css |-> EmptyMap, cssKeys |-> <<>>, js |-> EmptyMap, jsKeys |-> <<>>]

NewProcessor == [errLines |-> <<>>, hasStyles |-> FALSE, hasScripts |-> FALSE]

\* the registry, the manager and the processor as constructed, nothing run yet
Fresh ==
    /\ loaded = EmptyMap
    /\ nextInst = 1
    /\ calls = <<>>
    /\ returns = <<>>
    /\ mgr = NewManager
    /\ ingested = <<>>
    /\ proc = NewProcessor
    /\ out = <<>>
    /\ written = <<>>
    /\ todo = {}
    /\ cur = NoBlueprint

ParseInit ==
    /\ tmpl = <<>>
    /\ nodeVars = EmptyMap
    /\ pc = "start"
    /\ content \in Texts
    /\ tree = NilTree
    /\ Fresh

\* blueprint.New(content)
DoNew ==
    /\ pc = "start"
    /\ tree' \in New(content)
    /\ pc' = "parsed"
    /\ UNCHANGED <<content, loaded, nextInst, calls, returns, mgr, ingested, proc, tmpl,
                   nodeVars, out, written, todo, cur>>

ParseNext == DoNew

SpecParse == ParseInit /\ [][ParseNext]_state

----------------------------------------------------------------------------
(* Claims about blueprint.New *)

LinesOf(text) == Split(text, "\n")

\* positions of the lines of a text that open a block
AcceptedAt(text) == {i \in 1..Len(LinesOf(text)) : parseLine(LinesOf(text)[i], 0).ok}

ParsedIndex(text, i) == parseLine(LinesOf(text)[i], 0).block.Index

\* two accepted block lines carry the same sequence of parsed integers
Collision(text) ==
    \E i, j \in AcceptedAt(text) : i # j /\ ParsedIndex(text, i) = ParsedIndex(text, j)

\* C1: a text with two accepted block lines of the same index path yields no tree
\* (a nil root); a text with an accepted block and no such pair yields a tree.
C1_DuplicateIndexNoTree ==
    pc = "parsed" =>
        /\ Collision(content) => tree.nil
        /\ (AcceptedAt(content) # {} /\ ~Collision(content)) => ~tree.nil

\* C1's case: two spellings of one index path (1.1 and 1.1., or 1 and 01) were parsed
C1_Witness ==
    /\ pc = "parsed"
    /\ tree.nil
    /\ \E i, j \in AcceptedAt(content) :
          /\ i # j
          /\ ParsedIndex(content, i) = ParsedIndex(content, j)
          /\ Fields(LinesOf(content)[i])[1] # Fields(LinesOf(content)[j])[1]

\* the elements of a finite set of integers in ascending order
Ascending(S) == [i \in 1..Cardinality(S) |-> CHOOSE x \in S : Cardinality({y \in S : y < x}) = i - 1]

\* a text with its blocks reordered by p, each block line keeping the lines that
\* follow it up to the next block line; lines before the first block stay first
Reordered(text, p) ==
    LET lines == LinesOf(text)
        at    == Ascending(AcceptedAt(text))
        k     == Len(at)
        grp   == [g \in 1..k |->
                     SubSeq(lines, at[g], IF g = k THEN Len(lines) ELSE at[g + 1] - 1)]
        pre   == IF k = 0 THEN lines ELSE SubSeq(lines, 1, at[1] - 1)
        RECURSIVE cat(_)
        cat(g) == IF g > k THEN <<>> ELSE grp[p[g]] \o cat(g + 1)
    IN  Join(pre \o cat(1), <<"\n">>)

Orderings(k) == {p \in [1..k -> 1..k] : \A i, j \in 1..k : i # j => p[i] # p[j]}

\* a tree as what the source text determines: for the root (<<>>) and every index,
\* the indexes and paths of the children in order
Shape(t) ==
    LET name(n) == IF n = RootID THEN <<>> ELSE t.blocks[n + 1].Index
    IN  IF t.nil THEN {}
        ELSE {<<name(n), [i \in 1..Len(t.kids[n]) |->
                            <<t.blocks[t.kids[n][i] + 1].Index,
                              t.blocks[t.kids[n][i] + 1].Path>>]>> : n \in DOMAIN t.kids}

\* children in ascending order of the last segment, root's children of the first
SortedKids(t) ==
    \A n \in DOMAIN t.kids : \A i, j \in 1..Len(t.kids[n]) :
        i < j =>
            LET a == t.blocks[t.kids[n][i] + 1].Index
                b == t.blocks[t.kids[n][j] + 1].Index
            IN  IF n = RootID THEN a[1] <= b[1] ELSE a[Len(a)] < b[Len(b)]

\* C2: children are in ascending order of their last index segment (root's of the
\* first), and the order and the parent of every node are the same for every
\* permutation of the block lines of the text.
C2_OrderIndependentOfSource ==
    (pc = "parsed" /\ ~tree.nil) =>
        /\ SortedKids(tree)
        /\ \A p \in Orderings(Cardinality(AcceptedAt(content))) :
              {Shape(t) : t \in New(Reordered(content, p))} = {Shape(t) : t \in New(content)}

\* the part of C2 the code keeps: the children of every node are sorted
C2_SortedOnly == (pc = "parsed" /\ ~tree.nil) => SortedKids(tree)

\* the index of a node of a tree, the root's being the empty index
NodeIndex(t, n) == IF n = RootID THEN <<>> ELSE t.blocks[n + 1].Index

\* the node whose children hold n
KidsParent(t, n) == CHOOSE m \in DOMAIN t.kids : \E i \in 1..Len(t.kids[m]) : t.kids[m][i] = n

\* no two nodes of a tree carry the same index
UniqueIndexes(t) ==
    \A m, n \in DOMAIN t.kids : m # n => NodeIndex(t, m) # NodeIndex(t, n)

\* every node but the root hangs under the node whose index is its own less the
\* last segment
ParentIsPrefix(t) ==
    \A n \in DOMAIN t.kids \ {RootID} :
        LET idx == NodeIndex(t, n)
        IN  NodeIndex(t, KidsParent(t, n)) = SubSeq(idx, 1, Len(idx) - 1)

\* C11: in every tree New returns no two nodes share an index, and every node but
\* the root has as parent the node whose index is its own with the last segment
\* removed (the root exactly when the index has one segment), whatever the order
\* of the block lines and also when the parent index is not in the source.
C11_ParentIndexIsPrefix ==
    (pc = "parsed" /\ ~tree.nil) => (UniqueIndexes(tree) /\ ParentIsPrefix(tree))

\* the part of C11 the code keeps: indexes are unique in a returned tree
C11_UniqueIndexesOnly == (pc = "parsed" /\ ~tree.nil) => UniqueIndexes(tree)

----------------------------------------------------------------------------
(* package storage: the component files on disk, as the registry reads them *)

HtmlExt == <<".", "h", "t", "m", "l">>
CssExt  == <<".", "c", "s", "s">>
JsExt   == <<".", "j", "s">>

File(name, data, readable) == [name |-> name, data |-> data, readable |-> readable]

\* the components directory: each component directory with its files in the order
\* filepath.Walk visits them. Directory a has a template, two stylesheets and a
\* script; b a template only; c/d two templates; e a stylesheet that cannot be
\* read. No other directory exists.
Disk ==
    (<<"a">> :> << File(<<"a", ".", "h", "t", "m", "l">>, <<"<", "p", ">">>, TRUE),
                   File(<<"m", ".", "j", "s">>, <<"f", "(", ")">>, TRUE),
                   File(<<"s", ".", "c", "s", "s">>, <<"p", "{", "}">>, TRUE),
                   File(<<"t", ".", "c", "s", "s">>, <<"q", "{", "}">>, TRUE) >>)
    @@ (<<"b">> :> << File(<<"b", ".", "h", "t", "m", "l">>, <<"<", "b", ">">>, TRUE) >>)
    @@ (<<"c", "/", "d">> :> << File(<<"x", ".", "h", "t", "m", "l">>, <<"x">>, TRUE),
                              File(<<"y", ".", "h", "t", "m", "l">>, <<"y">>, TRUE) >>)
    @@ (<<"e">> :> << File(<<"e", ".", "h", "t", "m", "l">>, <<"<", "e", ">">>, TRUE),
                     File(<<"z", ".", "c", "s", "s">>, <<"z", "{", "}">>, FALSE) >>)

\* filepath.Ext: the suffix of a name from its last dot
Ext(name) ==
    LET dots == {i \in 1..Len(name) : name[i] = "."}
    IN  IF dots = {} THEN <<>> ELSE SubSeq(name, SetMax(dots), Len(name))

\* Storage.ListComponentFiles: the names under a directory that have the extension
ListComponentFiles(dir, ext) ==
    IF dir \notin DOMAIN Disk THEN [ok |-> FALSE, files |-> <<>>]
    ELSE [ok    |-> TRUE,
          files |-> LET fs == SelectSeq(Disk[dir], LAMBDA f : ext = <<>> \/ Ext(f.name) = ext)
                    IN  [i \in 1..Len(fs) |-> fs[i].name]]

\* Storage.FindTemplateFile: the one HTML file of a directory
FindTemplateFile(dir) ==
    LET l == ListComponentFiles(dir, HtmlExt)
    IN  IF ~l.ok \/ Len(l.files) # 1 THEN [ok |-> FALSE, name |-> <<>>]
        ELSE [ok |-> TRUE, name |-> l.files[1]]

\* Storage.ReadComponent: os.ReadFile of one file of a directory
ReadComponent(dir, name) ==
    IF dir \in DOMAIN Disk /\ \E i \in 1..Len(Disk[dir]) : Disk[dir][i].name = name /\ Disk[dir][i].readable
    THEN [ok |-> TRUE,
          data |-> Disk[dir][CHOOSE i \in 1..Len(Disk[dir]) : Disk[dir][i].name = name].data]
    ELSE [ok |-> FALSE, data |-> <<>>]

----------------------------------------------------------------------------
(* package component *)

NilComp == [inst |-> 0, Path |-> <<>>, Template |-> <<>>, Styles |-> <<>>,
            Scripts |-> EmptyMap, Children |-> EmptyMap]

\* the directory of a component path: filepath.Join of its dot-separated parts
\* (Join drops empty parts)
FsPath(path) == Join(SelectSeq(Split(path, "."), LAMBDA x : x # <<>>), <<"/">>)

Call(op, dir, arg) == [op |-> op, dir |-> dir, arg |-> arg]

\* the read loops of Load: ReadComponent of each file in turn, stopping at the
\* first failure; the contents read and the calls issued
RECURSIVE readFiles(_, _, _)
readFiles(dir, files, acc) ==
    IF files = <<>> THEN acc
    ELSE LET r == ReadComponent(dir, Head(files))
             a == [acc EXCEPT !.calls = Append(@, Call("ReadComponent", dir, Head(files))),
                              !.ok    = r.ok,
                              !.data  = IF r.ok THEN Append(@, r.data) ELSE @]
         IN  IF r.ok THEN readFiles(dir, Tail(files), a) ELSE a

\* Load past the cache lookup: read the template, the stylesheets and the scripts,
\* and cache the component if everything was read
loadFromStore(reg, path) ==
    LET dir  == FsPath(path)
        tf   == FindTemplateFile(dir)
        c1   == Append(reg.calls, Call("FindTemplateFile", dir, <<>>))
        tr   == ReadComponent(dir, tf.name)
        c2   == Append(c1, Call("ReadComponent", dir, tf.name))
        cl   == ListComponentFiles(dir, CssExt)
        c3   == Append(c2, Call("ListComponentFiles", dir, CssExt))
        cr   == readFiles(dir, cl.files, [ok |-> TRUE, data |-> <<>>, calls |-> c3])
        jl   == ListComponentFiles(dir, JsExt)
        c4   == Append(cr.calls, Call("ListComponentFiles", dir, JsExt))
        jr   == readFiles(dir, jl.files, [ok |-> TRUE, data |-> <<>>, calls |-> c4])
        comp == [inst     |-> reg.nextInst,
                 Path     |-> path,
                 Template |-> tr.data,
                 Styles   |-> Join([i \in 1..Len(cr.data) |-> cr.data[i] \o <<"\n">>], <<>>),
                 Scripts  |-> [f \in {jl.files[i] : i \in 1..Len(jl.files)} |->
                                 jr.data[CHOOSE i \in 1..Len(jl.files) : jl.files[i] = f]],
                 Children |-> EmptyMap]
        fail(c) == [loaded |-> reg.loaded, nextInst |-> reg.nextInst + 1, calls |-> c,
                    comp |-> NilComp, err |-> TRUE]
    IN  IF ~tf.ok THEN fail(c1)
        ELSE IF ~tr.ok THEN fail(c2)
        ELSE IF ~cl.ok THEN fail(c3)
        ELSE IF ~cr.ok THEN fail(cr.calls)
        ELSE IF ~jl.ok THEN fail(c4)
        ELSE IF ~jr.ok THEN fail(jr.calls)
        ELSE [loaded   |-> (path :> comp) @@ reg.loaded,
              nextInst |-> reg.nextInst + 1,
              calls    |-> jr.calls,
              comp     |-> comp,
              err      |-> FALSE]

\* Registry.Load that never consults the cache
LoadUncached(reg, path) == loadFromStore(reg, path)

\* Registry.Load
Load(reg, path) ==
    IF path \in DOMAIN reg.loaded
    THEN [loaded |-> reg.loaded, nextInst |-> reg.nextInst, calls |-> reg.calls,
          comp |-> reg.loaded[path], err |-> FALSE]
    ELSE loadFromStore(reg, path)

\* Registry.Get
Get(reg, path) == IF path \in DOMAIN reg.loaded THEN reg.loaded[path] ELSE NilComp

----------------------------------------------------------------------------
(* Registry runs: any sequence of Load and Get calls on one registry *)

\* most Registry calls in one run
MaxOps == 3

\* the paths asked for: a, b, c.d, e, n and "a." (the directory of a under
\* another path)
PathSet ==
    { <<"a">>, <<"b">>, <<"c", ".", "d">>, <<"e">>, <<"n">>, <<"a", ".">> }

Registry == [loaded |-> loaded, nextInst |-> nextInst, calls |-> calls]

Returned(op, path, comp, err, r) ==
    [op |-> op, path |-> path, comp |-> comp, err |-> err, calls |-> r.calls, loaded |-> r.loaded]

RegistryInit ==
    /\ tmpl = <<>>
    /\ nodeVars = EmptyMap
    /\ pc = "registry"
    /\ content = <<>>
    /\ tree = NilTree
    /\ Fresh

\* registry.Load(path)
DoLoad(path) ==
    /\ pc = "registry"
    /\ Len(returns) < MaxOps
    /\ LET r == Load(Registry, path)
       IN  /\ loaded' = r.loaded
           /\ nextInst' = r.nextInst
           /\ calls' = r.calls
           /\ returns' = Append(returns, Returned("Load", path, r.comp, r.err, r))
    /\ UNCHANGED <<pc, content, tree, mgr, ingested, proc, tmpl, nodeVars, out, written, todo, cur>>

\* registry.Get(path)
DoGet(path) ==
    /\ pc = "registry"
    /\ Len(returns) < MaxOps
    /\ returns' = Append(returns, Returned("Get", path, Get(Registry, path), FALSE, Registry))
    /\ UNCHANGED <<pc, content, tree, loaded, nextInst, calls, mgr, ingested, proc, tmpl,
                   nodeVars, out, written, todo, cur>>

RegistryNext == \E path \in PathSet : DoLoad(path) \/ DoGet(path)

SpecRegistry == RegistryInit /\ [][RegistryNext]_state

\* the j-th call's view of the calls issued and the cache before it ran
BeforeCall(j) ==
    IF j = 1 THEN [calls |-> <<>>, loaded |-> EmptyMap]
    ELSE [calls |-> returns[j - 1].calls, loaded |-> returns[j - 1].loaded]

\* the earlier calls that were successful Loads of the j-th call's path
LoadedBy(j) ==
    {i \in 1..(j - 1) : returns[i].op = "Load" /\ ~returns[i].err /\ returns[i].path = returns[j].path}

\* C3: once Load(path) has succeeded, every later Load(path) returns the same
\* cached instance and issues no storage call, the cached component is unchanged,
\* Get(path) returns that instance, and Get of a never-loaded path returns absent
\* and leaves the cache as it was.
C3_LoadReturnsCachedInstance ==
    \A j \in 1..Len(returns) :
        /\ \A i \in LoadedBy(j) :
              /\ returns[j].comp = returns[i].comp
              /\ ~returns[j].err
              /\ returns[j].calls = BeforeCall(j).calls
              /\ returns[j].loaded = BeforeCall(j).loaded
              /\ returns[j].loaded[returns[j].path] = returns[i].comp
        /\ (returns[j].op = "Get" /\ LoadedBy(j) = {}) =>
              /\ returns[j].comp = NilComp
              /\ returns[j].loaded = BeforeCall(j).loaded
              /\ returns[j].calls = BeforeCall(j).calls

\* C3's case: a path was loaded from the store, loaded again and then read with Get
C3_Witness ==
    /\ Len(returns) = 3
    /\ returns[1].op = "Load" /\ ~returns[1].err /\ Len(returns[1].calls) > 0
    /\ returns[2].op = "Load" /\ returns[2].path = returns[1].path
    /\ returns[3].op = "Get" /\ returns[3].path = returns[1].path

----------------------------------------------------------------------------
(* package assets *)

\* the sequences that list every element of a finite set once: the orders in which
\* a range over a Go map can visit its keys
Orders(S) ==
    {o \in [1..Cardinality(S) -> S] : \A i, j \in 1..Cardinality(S) : i # j => o[i] # o[j]}

Concat(ss) == Join(ss, <<>>)

\* generateHash: the SHA-256 digest of a content, taken to be collision free; a
\* digest is written as the record of the content it was computed from
generateHash(data) == [sha256 |-> data]

IsAlnum(c) ==
    \/ IsDigit(c)
    \/ c \in {"a", "b", "c", "d", "e", "f", "g", "h", "i", "j", "k", "l", "m",
              "n", "o", "p", "q", "r", "s", "t", "u", "v", "w", "x", "y", "z"}
    \/ c \in {"A", "B", "C", "D", "E", "F", "G", "H", "I", "J", "K", "L", "M",
              "N", "O", "P", "Q", "R", "S", "T", "U", "V", "W", "X", "Y", "Z"}

\* the loop of sanitizeFileName that replaces "--" by "-" until none is left
RECURSIVE collapseDashes(_)
collapseDashes(name) ==
    LET i == Index(name, <<"-", "-">>)
    IN  IF i = -1 THEN name
        ELSE collapseDashes(SubSeq(name, 1, i) \o SubSeq(name, i + 2, Len(name)))

\* sanitizeFileName
sanitizeFileName(path) ==
    Trim(collapseDashes([i \in 1..Len(path) |-> IF IsAlnum(path[i]) THEN path[i] ELSE "-"]), "-")

\* strings.TrimSuffix
TrimSuffix(s, suf) == IF HasSuffix(s, suf) THEN SubSeq(s, 1, Len(s) - Len(suf)) ELSE s

\* filepath.Join of clean elements: the non-empty ones, separated by "/"
filepathJoin(parts) == Join(SelectSeq(parts, LAMBDA x : x # <<>>), <<"/">>)

\* the name a script of a component is given: sanitize(path)-basename
outName(comp, origName) ==
    sanitizeFileName(comp.Path) \o <<"-">> \o TrimSuffix(origName, JsExt)

\* ProcessComponent's CSS step with the lookup of the hash left out
processCSSNoLookup(m, comp) ==
    IF Len(comp.Styles) > 0
    THEN [m EXCEPT !.css     = (generateHash(comp.Styles) :> comp.Styles) @@ m.css,
                   !.cssKeys = Append(m.cssKeys, generateHash(comp.Styles))]
    ELSE m

\* ProcessComponent's CSS step: a content not seen before is stored under its hash
processCSS(m, comp) ==
    IF Len(comp.Styles) > 0 /\ generateHash(comp.Styles) \notin DOMAIN m.css
    THEN [m EXCEPT !.css     = (generateHash(comp.Styles) :> comp.Styles) @@ m.css,
                   !.cssKeys = Append(m.cssKeys, generateHash(comp.Styles))]
    ELSE m

\* ProcessComponent's JS loop over the scripts in the order the map range visits them
RECURSIVE processJS(_, _, _)
processJS(m, comp, order) ==
    IF order = <<>> THEN m
    ELSE LET data == comp.Scripts[Head(order)]
             hash == generateHash(data)
             name == outName(comp, Head(order))
             m2   == IF hash \in DOMAIN m.js
                     THEN [m EXCEPT !.js = [m.js EXCEPT ![hash].files = Append(@, name)]]
                     ELSE [m EXCEPT !.js     = (hash :> [content |-> data, files |-> <<name>>]) @@ m.js,
                                    !.jsKeys = Append(m.jsKeys, hash)]
         IN  processJS(m2, comp, Tail(order))

\* Manager.ProcessComponent: the managers it can leave, one per visiting order of
\* the component's scripts
ProcessComponent(m, comp) ==
    IF comp = NilComp THEN {m}
    ELSE {processJS(processCSS(m, comp), comp, o) : o \in Orders(DOMAIN comp.Scripts)}

\* the file names of the script tags GetAssetTags writes, for a visiting order of m.js
scriptTagNames(m, order) ==
    Concat([k \in 1..Len(order) |->
               [i \in 1..Len(m.js[order[k]].files) |->
                   sanitizeFileName(m.js[order[k]].files[i]) \o JsExt]])

StylesName == <<"s", "t", "y", "l", "e", "s", ".", "c", "s", "s">>

linkTag(href) == <<"<", "l", "i", "n", "k", " ", "r", "e", "l", "=", "\"", "s", "t", "y", "l", "e", "s", "h", "e", "e", "t", "\"", " ", "h", "r", "e", "f", "=", "\"">> \o href \o <<"\"", ">">>

scriptTag(src) == <<"<", "s", "c", "r", "i", "p", "t", " ", "s", "r", "c", "=", "\"">> \o src \o <<"\"", ">", "<", "/", "s", "c", "r", "i", "p", "t", ">">>

\* Manager.GetAssetTags: the tag pairs it can return, one per visiting order of m.js
GetAssetTags(m, prefix) ==
    {[styles  |-> IF DOMAIN m.css # {}
                  THEN linkTag(filepathJoin(<<prefix, <<"c", "s", "s">>, StylesName>>))
                  ELSE <<>>,
      names   |-> scriptTagNames(m, o),
      scripts |-> TrimSpace(Concat([i \in 1..Len(scriptTagNames(m, o)) |->
                      scriptTag(filepathJoin(<<prefix, <<"j", "s">>, scriptTagNames(m, o)[i]>>))
                          \o <<"\n">>]))] :
        o \in Orders(DOMAIN m.js)}

\* GetFiles' JS loop: every name of every content in jsKeys order, a later entry
\* replacing an earlier one of the same name
RECURSIVE jsFiles(_, _, _)
jsFiles(m, entries, files) ==
    IF entries = <<>> THEN files
    ELSE jsFiles(m, Tail(entries),
                 (sanitizeFileName(Head(entries)[2]) \o JsExt :> m.js[Head(entries)[1]].content)
                     @@ files)

\* Manager.GetFiles
GetFiles(m) ==
    LET merged == Concat([i \in 1..Len(m.cssKeys) |-> m.css[m.cssKeys[i]] \o <<"\n">>])
        css    == IF DOMAIN m.css # {}
                  THEN (StylesName :> TrimSuffix(merged, <<"\n">>))
                  ELSE EmptyMap
        names  == Concat([k \in 1..Len(m.jsKeys) |->
                            [i \in 1..Len(m.js[m.jsKeys[k]].files) |->
                                <<m.jsKeys[k], m.js[m.jsKeys[k]].files[i]>>]])
    IN  jsFiles(m, names, css)

----------------------------------------------------------------------------
(* Asset runs: any sequence of ProcessComponent calls on one manager *)

\* most ProcessComponent calls in one run
MaxIngest == 3

Comp(path, styles, scripts) ==
    [inst |-> 1, Path |-> path, Template |-> <<>>, Styles |-> styles, Scripts |-> scripts,
     Children |-> EmptyMap]

\* the components handed in: a and b share their stylesheet and their script, c has
\* another stylesheet, x.y and x-y have different scripts under the same derived
\* name, d has two scripts and no stylesheet; and the nil component
AssetComps ==
    { Comp(<<"a">>, <<"p", "{", "}", "\n">>,
           (<<"m", ".", "j", "s">> :> <<"f", "(", ")">>)),
      Comp(<<"b">>, <<"p", "{", "}", "\n">>,
           (<<"m", ".", "j", "s">> :> <<"f", "(", ")">>)),
      Comp(<<"c">>, <<"q", "{", "}", "\n">>,
           EmptyMap),
      Comp(<<"x", ".", "y">>, <<>>,
           (<<"m", ".", "j", "s">> :> <<"g", "(", ")">>)),
      Comp(<<"x", "-", "y">>, <<>>,
           (<<"m", ".", "j", "s">> :> <<"h", "(", ")">>)),
      Comp(<<"d">>, <<>>,
           (<<"m", ".", "j", "s">> :> <<"f", "(", ")">>) @@ (<<"n", ".", "j", "s">> :> <<"g", "(", ")">>)),
      NilComp }

AssetsInit ==
    /\ tmpl = <<>>
    /\ nodeVars = EmptyMap
    /\ pc = "assets"
    /\ content = <<>>
    /\ tree = NilTree
    /\ Fresh

\* manager.ProcessComponent(comp)
DoProcessComponent(comp) ==
    /\ pc = "assets"
    /\ Len(ingested) < MaxIngest
    /\ mgr' \in ProcessComponent(mgr, comp)
    /\ ingested' = Append(ingested, comp)
    /\ UNCHANGED <<pc, content, tree, loaded, nextInst, calls, returns, proc, tmpl,
                   nodeVars, out, written, todo, cur>>

AssetsNext == \E comp \in AssetComps : DoProcessComponent(comp)

SpecAssets == AssetsInit /\ [][AssetsNext]_state

\* a sequence with every repetition of an earlier element removed
RECURSIVE FirstOccurrences(_)
FirstOccurrences(s) ==
    IF s = <<>> THEN <<>>
    ELSE LET r == FirstOccurrences(SubSeq(s, 1, Len(s) - 1))
         IN  IF \E i \in 1..Len(r) : r[i] = s[Len(s)] THEN r ELSE Append(r, s[Len(s)])

\* the non-empty CSS contents handed in so far, in order
ContributedCSS ==
    LET given == SelectSeq(ingested, LAMBDA c : c.Styles # <<>>)
    IN  [i \in 1..Len(given) |-> given[i].Styles]

\* C4: the merged styles.css holds each distinct non-empty CSS content exactly once,
\* in the order in which each was first contributed, separated by line breaks; with
\* no CSS contributed there is no styles.css.
C4_CssOncePerContent ==
    pc = "assets" =>
        IF ContributedCSS = <<>> THEN StylesName \notin DOMAIN GetFiles(mgr)
        ELSE /\ StylesName \in DOMAIN GetFiles(mgr)
             /\ GetFiles(mgr)[StylesName] = Join(FirstOccurrences(ContributedCSS), <<"\n">>)

\* C4's case: a content came twice (from two components or one component twice)
\* and another content after it
C4_Witness ==
    /\ pc = "assets"
    /\ Len(ContributedCSS) = 3
    /\ Len(FirstOccurrences(ContributedCSS)) = 2
    /\ ContributedCSS[1] = ContributedCSS[2]
    /\ ingested[1].Path # ingested[2].Path

\* the scripts handed in so far: each as the name derived for it and its content
ContributedJS ==
    UNION {{<<sanitizeFileName(outName(ingested[i], f)) \o JsExt, ingested[i].Scripts[f]>> :
               f \in DOMAIN ingested[i].Scripts} : i \in 1..Len(ingested)}

JsFileNames(files) == {n \in DOMAIN files : Ext(n) = JsExt}

\* GetFiles holds one JS file per distinct script content
C5_OneFilePerContent ==
    pc = "assets" =>
        Cardinality(JsFileNames(GetFiles(mgr))) = Cardinality({e[2] : e \in ContributedJS})

\* GetAssetTags writes one script tag per distinct derived name
C5_OneTagPerName ==
    pc = "assets" =>
        \A t \in GetAssetTags(mgr, <<>>) :
            /\ {t.names[i] : i \in 1..Len(t.names)} = {e[1] : e \in ContributedJS}
            /\ \A i, j \in 1..Len(t.names) : i # j => t.names[i] # t.names[j]

\* C5: identical JS content contributed under several derived names is one physical
\* file (one JS file per distinct content hash), and there is exactly one script tag
\* per distinct derived name, also when a component is ingested more than once.
C5_JsOneFileOneTagPerName == C5_OneFilePerContent /\ C5_OneTagPerName

\* the script tags point at exactly the JS files GetFiles holds
TagsMatchFiles ==
    \A t \in GetAssetTags(mgr, <<>>) :
        {t.names[i] : i \in 1..Len(t.names)} = JsFileNames(GetFiles(mgr))

\* every script handed in is in GetFiles under the name derived for it
ContentKept ==
    \A e \in ContributedJS : e[1] \in DOMAIN GetFiles(mgr) /\ GetFiles(mgr)[e[1]] = e[2]

\* C15: after any sequence of ProcessComponent calls the file names of the script
\* tags are the .js file names of GetFiles, and the content under each name is the
\* content handed in under that derived name: no script is lost to another one of
\* the same derived name.
C15_TagsAndContentMatchFiles == pc = "assets" => (TagsMatchFiles /\ ContentKept)

\* the part of C15 the code keeps: tags and JS files name the same files
C15_TagsMatchFilesOnly == pc = "assets" => TagsMatchFiles

----------------------------------------------------------------------------
(* package template: the tokenizer *)

Token(type, text) == [Type |-> type, Content |-> text]

Open  == <<"{", "{">>
Close == <<"}", "}">>

\* strings.TrimPrefix
TrimPrefix(s, pre) == IF HasPrefix(s, pre) THEN SubSeq(s, Len(pre) + 1, Len(s)) ELSE s

\* the switch of Tokenize: the token a directive body stands for, none if unknown
directiveTokens(directive) ==
    IF directive = <<"c", "o", "m", "p", "o", "n", "e", "n", "t">> THEN <<Token("Component", <<>>)>>
    ELSE IF directive = <<"r", "a", "n", "g", "e", " ", "e", "n", "d">> THEN <<Token("RangeEnd", <<>>)>>
    ELSE IF HasPrefix(directive, <<"r", "a", "n", "g", "e", " ", ".">>)
         THEN <<Token("RangeStart", TrimPrefix(directive, <<"r", "a", "n", "g", "e", " ", ".">>))>>
    ELSE IF directive = <<"s", "t", "y", "l", "e", "s">> THEN <<Token("Style", <<>>)>>
    ELSE IF directive = <<"s", "c", "r", "i", "p", "t">> THEN <<Token("Script", <<>>)>>
    ELSE IF HasPrefix(directive, <<".">>) THEN <<Token("Var", TrimPrefix(directive, <<".">>))>>
    ELSE <<>>

\* the loop of Tokenize from a position where t.pos is 0: the scan to the next "{{",
\* the text before it, the directive, and on; then the remaining text. An
\* unterminated directive leaves the loop with t.template still holding it.
RECURSIVE tokenizeFrom(_, _)
tokenizeFrom(template, tokens) ==
    LET pos  == Index(template, Open)
        tk1  == IF pos > 0 THEN Append(tokens, Token("Text", SubSeq(template, 1, pos))) ELSE tokens
        t1   == SubSeq(template, pos + 1, Len(template))
        end  == Index(SubSeq(t1, 3, Len(t1)), Close)
        body == TrimSpace(SubSeq(t1, 3, end + 2))
    IN  IF pos = -1
        THEN IF Len(template) > 0 THEN Append(tokens, Token("Text", template)) ELSE tokens
        ELSE IF end = -1
        THEN Append(Append(tk1, Token("Text", t1)), Token("Text", t1))
        ELSE tokenizeFrom(SubSeq(t1, end + 5, Len(t1)), tk1 \o directiveTokens(body))

\* Tokenizer.Tokenize
Tokenize(template) == tokenizeFrom(template, <<>>)

----------------------------------------------------------------------------
(* package template: the processor *)

\* bytes.ReplaceAll with a non-empty old
RECURSIVE ReplaceAll(_, _, _)
ReplaceAll(s, old, new) ==
    LET i == Index(s, old)
    IN  IF i = -1 THEN s
        ELSE SubSeq(s, 1, i) \o new \o ReplaceAll(SubSeq(s, i + Len(old) + 1, Len(s)), old, new)

\* the state of a Processor that processing changes: its asset manager, its error
\* list and its two marker flags
ProcState(m, p) ==
    [mgr |-> m, errLines |-> p.errLines, hasStyles |-> p.hasStyles, hasScripts |-> p.hasScripts]

\* Processor.addError: an error of the same line and directive is recorded once
addError(st, line, directive, msg) ==
    IF \E i \in 1..Len(st.errLines) :
           st.errLines[i].line = line /\ st.errLines[i].directive = directive
    THEN st
    ELSE [st EXCEPT !.errLines = Append(@, [line |-> line, directive |-> directive, msg |-> msg])]

\* Process returning nothing for a node whose component is not loaded
placeholderNone(path) == <<>>

\* the text Process returns for a node whose component is not loaded
placeholder(path) == Open \o path \o Close

\* a Var token outside a range reading the last value of the variable
lastValue(vars, name) == IF name \in DOMAIN vars THEN vars[name][Len(vars[name])] ELSE <<>>

\* a Var token outside a range: the first value of the variable, nothing if unbound
firstValue(vars, name) == IF name \in DOMAIN vars THEN vars[name][1] ELSE <<>>

\* one pass over the body of a range block for the iteration value rangeValue
RECURSIVE rangeBody(_, _, _, _)
rangeBody(body, vars, rangeVar, rangeValue) ==
    IF body = <<>> THEN <<>>
    ELSE LET t == Head(body)
             w == IF t.Type = "Text" THEN t.Content
                  ELSE IF t.Type = "Var"
                       THEN IF t.Content = rangeVar THEN rangeValue
                            ELSE IF t.Content \in DOMAIN vars /\ Len(vars[t.Content]) > 0
                                 THEN vars[t.Content][1]
                                 ELSE <<>>
                  ELSE <<>>
         IN  w \o rangeBody(Tail(body), vars, rangeVar, rangeValue)

\* the RangeStart case that leaves rangeContent as it is when the variable is unbound
rangeStartStep(ls, vars, i, name) ==
    IF ls.inRange THEN ls
    ELSE [ls EXCEPT !.inRange      = TRUE,
                    !.rangeVar     = name,
                    !.rangeStart   = i - 1,
                    !.rangeContent = IF name \in DOMAIN vars THEN vars[name] ELSE @]

\* processTemplate's switch for the token at i (1-based), all cases but Component
tokenStep(tokens, i, vars, ls) ==
    LET token == tokens[i]
    IN  IF token.Type = "Text"
        THEN IF ls.inRange THEN ls ELSE [ls EXCEPT !.buf = @ \o token.Content]
        ELSE IF token.Type = "Style" THEN [ls EXCEPT !.st.hasStyles = TRUE]
        ELSE IF token.Type = "Script" THEN [ls EXCEPT !.st.hasScripts = TRUE]
        ELSE IF token.Type = "RangeStart" THEN rangeStartStep(ls, vars, i, token.Content)
        ELSE IF token.Type = "RangeEnd"
        THEN IF ~ls.inRange THEN ls
             ELSE [ls EXCEPT
                      !.buf = @ \o Concat([k \in 1..Len(ls.rangeContent) |->
                                     rangeBody(SubSeq(tokens, ls.rangeStart + 2, i - 1), vars,
                                               ls.rangeVar, ls.rangeContent[k])]),
                      !.inRange = FALSE,
                      !.rangeStart = 0 - 1]
        ELSE IF token.Type = "Var"
        THEN IF ls.inRange THEN ls ELSE [ls EXCEPT !.buf = @ \o firstValue(vars, token.Content)]
        ELSE ls

RECURSIVE Process(_, _, _)
RECURSIVE renderChildren(_, _, _)
RECURSIVE runTokens(_, _, _, _, _, _)

\* the loop over children of processChildren and of the Component case: each child
\* is processed in order and what it returns is written to the buffer
renderChildren(ctx, children, acc) ==
    IF children = <<>> THEN {acc}
    ELSE UNION {renderChildren(ctx, Tail(children), [buf |-> acc.buf \o r.out, st |-> r.st]) :
                   r \in Process(ctx, Head(children), acc.st)}

\* processTemplate's loop over the tokens from token i
runTokens(ctx, tokens, i, vars, children, ls) ==
    IF i > Len(tokens) THEN {ls}
    ELSE IF tokens[i].Type = "Component"
    THEN IF ls.inRange THEN runTokens(ctx, tokens, i + 1, vars, children, ls)
         ELSE UNION {runTokens(ctx, tokens, i + 1, vars, children,
                               [ls EXCEPT !.buf = r.buf, !.st = r.st]) :
                        r \in renderChildren(ctx, children, [buf |-> ls.buf, st |-> ls.st])}
    ELSE runTokens(ctx, tokens, i + 1, vars, children, tokenStep(tokens, i, vars, ls))

\* Processor.processTemplate: the outputs and processor states it can end with
processTemplate(ctx, template, vars, children, st) ==
    {[out |-> ls.buf, st |-> ls.st] :
        ls \in runTokens(ctx, Tokenize(template), 1, vars, children,
                         [buf |-> <<>>, rangeVar |-> <<>>, rangeContent |-> <<>>,
                          inRange |-> FALSE, rangeStart |-> 0 - 1, st |-> st])}

\* Processor.Process for node n of tree ctx.t with registry ctx.reg: what it can
\* return (the bytes, and the paths of the collected errors if it returns an error)
\* and the processor state it leaves
Process(ctx, n, st) ==
    LET done(o, s) == [out |-> o, err |-> s.errLines # <<>>,
                       errs |-> [i \in 1..Len(s.errLines) |-> s.errLines[i].directive], st |-> s]
        block      == ctx.t.blocks[n + 1]
        comp       == Get(ctx.reg, block.Path)
    IN  IF ctx.t.nil THEN {[out |-> <<>>, err |-> FALSE, errs |-> <<>>, st |-> st]}
        ELSE IF n = RootID
        THEN {done(r.buf, r.st) :
                 r \in renderChildren(ctx, ctx.t.kids[RootID], [buf |-> <<>>, st |-> st])}
        ELSE IF comp = NilComp
        THEN {[out |-> placeholder(block.Path), err |-> FALSE, errs |-> <<>>,
               st |-> addError(st, 0, block.Path, <<"c", "o", "m", "p", "o", "n", "e", "n", "t", " ", "n", "o", "t", " ", "f", "o", "u", "n", "d", ":", " ">> \o block.Path)]}
        ELSE UNION {{done(r.out, r.st) :
                        r \in processTemplate(ctx, comp.Template, block.Vars, ctx.t.kids[n],
                                              [st EXCEPT !.mgr = m])} :
                       m \in ProcessComponent(st.mgr, comp)}

\* Processor.GetUsedComponents: every loaded path with its dots turned to slashes
GetUsedComponents(reg) ==
    [path \in DOMAIN reg.loaded |-> [i \in 1..Len(path) |-> IF path[i] = "." THEN "/" ELSE path[i]]]

StylesMarker == Open \o <<"s", "t", "y", "l", "e", "s">> \o Close
ScriptMarker == Open \o <<"s", "c", "r", "i", "p", "t">> \o Close

NilResult == [nil |-> TRUE, HTML |-> <<>>, Files |-> EmptyMap, Components |-> EmptyMap]

\* Assembler past the call of Process: the tags are put in and the result is built
assemble(ctx, r, tags) ==
    LET html == IF r.st.hasStyles THEN ReplaceAll(r.out, StylesMarker, tags.styles) ELSE r.out
        buf1 == (IF ~r.st.hasStyles /\ tags.styles # <<>> THEN tags.styles ELSE <<>>) \o html
        buf2 == IF r.st.hasScripts THEN ReplaceAll(buf1, ScriptMarker, tags.scripts)
                ELSE IF tags.scripts # <<>> THEN buf1 \o tags.scripts
                ELSE buf1
    IN  [nil |-> FALSE, HTML |-> buf2, Files |-> GetFiles(r.st.mgr),
         Components |-> GetUsedComponents(ctx.reg)]

\* Processor.Assembler on the root of ctx.t: the results it can return (nil with
\* an error when Process returns an error) and the processor state it leaves
Assembler(ctx, st) ==
    UNION {IF r.err THEN {[result |-> NilResult, err |-> TRUE, errs |-> r.errs, st |-> r.st]}
           ELSE {[result |-> assemble(ctx, r, tags), err |-> FALSE, errs |-> <<>>, st |-> r.st] :
                    tags \in GetAssetTags(r.st.mgr, <<>>)} :
              r \in Process(ctx, RootID, st)}

----------------------------------------------------------------------------
(* Rendering runs: processTemplate applied to a bounded set of templates and vars *)

\* most segments of a template
MaxSegments == 3

\* the segments templates are made of: a range opening and a range end, variable
\* reads, text, whole range blocks over b and over c, a styles marker and an
\* unterminated directive
SegmentSet ==
    { <<"{", "{", "r", "a", "n", "g", "e", " ", ".", "a", "}", "}">>,
      <<"{", "{", "r", "a", "n", "g", "e", " ", "e", "n", "d", "}", "}">>,
      <<"{", "{", ".", "a", "}", "}">>,
      <<"x">>,
      <<"{", "{", "r", "a", "n", "g", "e", " ", ".", "b", "}", "}", "y", "{", "{", ".", "b", "}", "}", "{", "{", ".", "a", "}", "}", "{", "{", "r", "a", "n", "g", "e", " ", "e", "n", "d", "}", "}">>,
      <<"{", "{", "r", "a", "n", "g", "e", " ", ".", "c", "}", "}", "z", "{", "{", ".", "c", "}", "}", "{", "{", "r", "a", "n", "g", "e", " ", "e", "n", "d", "}", "}">>,
      <<"{", "{", " ", ".", "b", " ", "}", "}">>,
      <<"{", "{", "s", "t", "y", "l", "e", "s", "}", "}">>,
      <<"{", "{", ".", "a">> }

Templates == {Concat(ss) : ss \in UNION {[1..n -> SegmentSet] : n \in 1..MaxSegments}}

\* the vars of the node: a and b unbound or bound to one or more values, c never
VarMaps ==
    { EmptyMap,
      (<<"a">> :> << <<"1">>, <<"2">> >>),
      (<<"b">> :> << <<"3">> >>),
      (<<"a">> :> << <<"1">>, <<"2">> >>) @@ (<<"b">> :> << <<"3">>, <<"4">> >>) }

NoTreeCtx == [reg |-> Registry, t |-> NilTree]

RenderInit ==
    /\ pc = "render"
    /\ content = <<>>
    /\ tree = NilTree
    /\ tmpl \in Templates
    /\ nodeVars \in VarMaps
    /\ Fresh

\* processor.processTemplate(tmpl, nodeVars, no children)
DoProcessTemplate ==
    /\ pc = "render"
    /\ \E r \in processTemplate(NoTreeCtx, tmpl, nodeVars, <<>>, ProcState(mgr, proc)) :
          /\ out' = r.out
          /\ proc' = [errLines |-> r.st.errLines, hasStyles |-> r.st.hasStyles,
                      hasScripts |-> r.st.hasScripts]
          /\ mgr' = r.st.mgr
    /\ pc' = "rendered"
    /\ UNCHANGED <<content, tree, loaded, nextInst, calls, returns, ingested, tmpl, nodeVars,
                   written, todo, cur>>

RenderNext == DoProcessTemplate

SpecRender == RenderInit /\ [][RenderNext]_state

\* what a range body of the claimed semantics writes for the value v of name
RECURSIVE ClaimedBody(_, _, _, _)
ClaimedBody(body, vs, name, v) ==
    IF body = <<>> THEN <<>>
    ELSE (IF Head(body).Type = "Text" THEN Head(body).Content
          ELSE IF Head(body).Type = "Var"
               THEN IF Head(body).Content = name THEN v
                    ELSE IF Head(body).Content \in DOMAIN vs THEN vs[Head(body).Content][1]
                    ELSE <<>>
          ELSE <<>>) \o ClaimedBody(Tail(body), vs, name, v)

\* the claimed semantics of a token sequence: text and variables outside a range as
\* they are, and every range block, up to the next range end, once per value of its
\* own variable (no time if it is unbound); a range that is never ended writes nothing
RECURSIVE ClaimedRender(_, _)
ClaimedRender(tokens, vs) ==
    IF tokens = <<>> THEN <<>>
    ELSE LET t    == Head(tokens)
             ends == {j \in 2..Len(tokens) : tokens[j].Type = "RangeEnd"}
             vals == IF t.Content \in DOMAIN vs THEN vs[t.Content] ELSE <<>>
         IN  IF t.Type = "Text" THEN t.Content \o ClaimedRender(Tail(tokens), vs)
             ELSE IF t.Type = "Var"
                  THEN (IF t.Content \in DOMAIN vs THEN vs[t.Content][1] ELSE <<>>)
                           \o ClaimedRender(Tail(tokens), vs)
             ELSE IF t.Type = "RangeStart"
                  THEN IF ends = {} THEN <<>>
                       ELSE Concat([k \in 1..Len(vals) |->
                                       ClaimedBody(SubSeq(tokens, 2, SetMin(ends) - 1), vs,
                                                   t.Content, vals[k])])
                                \o ClaimedRender(SubSeq(tokens, SetMin(ends) + 1, Len(tokens)), vs)
             ELSE ClaimedRender(Tail(tokens), vs)

RangeStarts(tokens) == {i \in 1..Len(tokens) : tokens[i].Type = "RangeStart"}

\* C6: every range block of a template, a second or later one included, is rendered
\* once per value of its variable in order and not at all when the variable is
\* unbound; in iteration k the loop variable reads the k-th value and any other
\* variable its first value.
C6_RangeOncePerValue ==
    pc = "rendered" => out = ClaimedRender(Tokenize(tmpl), nodeVars)

\* C6 for the templates in which every range block's variable is bound
C6_BoundRangesOnly ==
    (pc = "rendered" /\ \A i \in RangeStarts(Tokenize(tmpl)) :
                           Tokenize(tmpl)[i].Content \in DOMAIN nodeVars)
        => out = ClaimedRender(Tokenize(tmpl), nodeVars)

\* the unterminated directive a template ends with: the text from the first "{{"
\* that no "}}" follows, directives before it being skipped; empty if there is none
RECURSIVE Remainder(_)
Remainder(template) ==
    LET pos == Index(template, Open)
        t1  == SubSeq(template, pos + 1, Len(template))
        end == Index(SubSeq(t1, 3, Len(t1)), Close)
    IN  IF pos = -1 THEN <<>>
        ELSE IF end = -1 THEN t1
        ELSE Remainder(SubSeq(t1, end + 5, Len(t1)))

\* a template in which some "{{" is closed by a "}}"
HasDirective(template) ==
    LET pos == Index(template, Open)
    IN  pos # -1 /\ Index(SubSeq(template, pos + 3, Len(template)), Close) # -1

\* the contents of the Text tokens, in order, as one text
TextOf(tokens) ==
    Concat([i \in 1..Len(tokens) |-> IF tokens[i].Type = "Text" THEN tokens[i].Content ELSE <<>>])

\* C12: Tokenize ends for every template; a template that ends with an
\* unterminated "{{" gets the text from that "{{" on as exactly one Text token,
\* and for a template without a terminated directive the Text tokens together
\* are the template.
C12_UnterminatedTextOnce ==
    pc = "rendered" =>
        LET tokens == Tokenize(tmpl)
            rem    == Remainder(tmpl)
        IN  /\ rem # <<>> =>
                  Cardinality({i \in 1..Len(tokens) : tokens[i] = Token("Text", rem)}) = 1
            /\ ~HasDirective(tmpl) => TextOf(tokens) = tmpl

\* the part of C12 the code keeps: the unterminated rest is the last token, and a
\* template with no "{{" that stays open is read back whole from its Text tokens
C12_RemainderIsLastToken ==
    pc = "rendered" =>
        LET tokens == Tokenize(tmpl)
            rem    == Remainder(tmpl)
        IN  /\ rem # <<>> => tokens[Len(tokens)] = Token("Text", rem)
            /\ (rem = <<>> /\ ~HasDirective(tmpl)) => TextOf(tokens) = tmpl

----------------------------------------------------------------------------
(* Processing runs: a blueprint text is parsed and its tree processed or      *)
(* assembled against a registry that holds some of the components             *)

\* most lines of a blueprint text that is processed
MaxNodeLines == 3

NodeLineSet ==
    { <<"1", " ", "a">>,
      <<"1", ".", "1", " ", "b">>,
      <<"1", ".", "2", " ", "a">>,
      <<"2", " ", "h">>,
      <<"2", ".", "1", " ", "b">>,
      <<".", "x", "=", "T">>,
      <<".", "x", "=", "U">> }

NodeTexts == {Join(ls, <<"\n">>) : ls \in UNION {[1..n -> NodeLineSet] : n \in 1..MaxNodeLines}}

TComp(path, template, styles, scripts) ==
    [inst |-> 1, Path |-> path, Template |-> template, Styles |-> styles, Scripts |-> scripts,
     Children |-> EmptyMap]

\* the components a registry can hold: a reads two variables and inserts its
\* children, b has a stylesheet and a script and no insertion point, h has a
\* stylesheet and declares the styles and script markers around its children
Pool ==
    (<<"a">> :> TComp(<<"a">>, <<"<", "a", ">", "{", "{", ".", "x", "}", "}", "{", "{", ".", "y", "}", "}", "{", "{", "c", "o", "m", "p", "o", "n", "e", "n", "t", "}", "}", "<", "/", "a", ">">>,
                     <<>>, EmptyMap))
    @@ (<<"b">> :> TComp(<<"b">>, <<"<", "b", ">", "{", "{", ".", "x", "}", "}", "<", "/", "b", ">">>,
                        <<"p", "{", "}", "\n">>, (<<"m", ".", "j", "s">> :> <<"f", "(", ")">>)))
    @@ (<<"h">> :> TComp(<<"h">>, <<"<", "h", ">", "{", "{", "s", "t", "y", "l", "e", "s", "}", "}", "{", "{", "c", "o", "m", "p", "o", "n", "e", "n", "t", "}", "}", "{", "{", "s", "c", "r", "i", "p", "t", "}", "}", "<", "/", "h", ">">>,
                        <<"q", "{", "}", "\n">>, EmptyMap))

Caches == {[p \in S |-> Pool[p]] : S \in SUBSET DOMAIN Pool}

ProcessInit ==
    /\ pc = "start"
    /\ content \in NodeTexts
    /\ tree = NilTree
    /\ tmpl = <<>>
    /\ nodeVars = EmptyMap
    /\ loaded \in Caches
    /\ nextInst = 1
    /\ calls = <<>>
    /\ returns = <<>>
    /\ mgr = NewManager
    /\ ingested = <<>>
    /\ proc = NewProcessor
    /\ out = <<>>
    /\ written = <<>>
    /\ todo = {}
    /\ cur = NoBlueprint

TreeCtx == [reg |-> Registry, t |-> tree]

Leaves(st) ==
    /\ mgr' = st.mgr
    /\ proc' = [errLines |-> st.errLines, hasStyles |-> st.hasStyles, hasScripts |-> st.hasScripts]

\* processor.Process(tree)
DoProcess ==
    /\ pc = "parsed"
    /\ \E r \in Process(TreeCtx, RootID, ProcState(mgr, proc)) :
          /\ out' = [html |-> r.out, err |-> r.err, errs |-> r.errs]
          /\ Leaves(r.st)
    /\ pc' = "processed"
    /\ UNCHANGED <<content, tree, loaded, nextInst, calls, returns, ingested, tmpl, nodeVars,
                   written, todo, cur>>

\* processor.Assembler(tree)
DoAssembler ==
    /\ pc = "parsed"
    /\ \E r \in Assembler(TreeCtx, ProcState(mgr, proc)) :
          /\ out' = [result |-> r.result, err |-> r.err, errs |-> r.errs]
          /\ Leaves(r.st)
    /\ pc' = "assembled"
    /\ UNCHANGED <<content, tree, loaded, nextInst, calls, returns, ingested, tmpl, nodeVars,
                   written, todo, cur>>

ProcessNext == DoNew \/ DoProcess \/ DoAssembler

SpecProcess == ProcessInit /\ [][ProcessNext]_state

----------------------------------------------------------------------------
(* Claims about Process and Assembler *)

NodePath(n) == tree.blocks[n + 1].Path

NodeTokens(n) == Tokenize(loaded[NodePath(n)].Template)

Missing(n) == NodePath(n) \notin DOMAIN loaded

ParentOf(n) == CHOOSE m \in DOMAIN tree.kids : \E i \in 1..Len(tree.kids[m]) : tree.kids[m][i] = n

HasType(tokens, type) == \E i \in 1..Len(tokens) : tokens[i].Type = type

\* the nodes Process is called for: the root's children, and the children of a
\* reached node whose component is loaded and has an insertion point
RECURSIVE Reached(_)
Reached(n) ==
    \/ ParentOf(n) = RootID
    \/ /\ Reached(ParentOf(n))
       /\ ~Missing(ParentOf(n))
       /\ HasType(NodeTokens(ParentOf(n)), "Component")

MissingReached == {n \in DOMAIN tree.kids \ {RootID} : Reached(n) /\ Missing(n)}

\* the page the tree stands for: the root is its children in their sorted order, a
\* node without a loaded component is the placeholder of its path, any other node
\* is its template with its children at the insertion point (the templates of Pool
\* have no range block)
RECURSIVE PageOf(_)
PageOf(n) ==
    LET kidsPage == Concat([i \in 1..Len(tree.kids[n]) |-> PageOf(tree.kids[n][i])])
        tokens   == NodeTokens(n)
        at       == {i \in 1..Len(tokens) : tokens[i].Type = "Component"}
    IN  IF n = RootID THEN kidsPage
        ELSE IF Missing(n) THEN <<"{", "{">> \o NodePath(n) \o <<"}", "}">>
        ELSE IF at = {} THEN ClaimedRender(tokens, tree.blocks[n + 1].Vars)
        ELSE ClaimedRender(SubSeq(tokens, 1, SetMin(at) - 1), tree.blocks[n + 1].Vars)
                 \o kidsPage
                 \o ClaimedRender(SubSeq(tokens, SetMin(at) + 1, Len(tokens)), tree.blocks[n + 1].Vars)

\* C7: a reached node whose path is not in the registry cache records one error for
\* that path and puts the placeholder {{path}} at the node's position, its siblings
\* are rendered in their sorted positions, and the errors are returned together
\* with the partial HTML.
C7_MissingComponentPlaceholder ==
    (pc = "processed" /\ ~tree.nil) =>
        /\ out.html = PageOf(RootID)
        /\ {proc.errLines[i].directive : i \in 1..Len(proc.errLines)}
               = {NodePath(n) : n \in MissingReached}
        /\ Len(proc.errLines) = Cardinality({NodePath(n) : n \in MissingReached})
        /\ out.err = (MissingReached # {})
        /\ out.errs = [i \in 1..Len(proc.errLines) |-> proc.errLines[i].directive]

\* C7's case: a node without a loaded component between two siblings that are
\* rendered, and the error returned with the HTML
C7_Witness ==
    /\ pc = "processed"
    /\ ~tree.nil
    /\ out.err
    /\ Len(out.html) > 0
    /\ \E n \in MissingReached :
          LET sibs == tree.kids[ParentOf(n)]
          IN  \E i, j, k \in 1..Len(sibs) :
                 i < j /\ j < k /\ sibs[j] = n /\ ~Missing(sibs[i]) /\ ~Missing(sibs[k])

\* the nodes whose templates are rendered
Rendered == {n \in DOMAIN tree.kids \ {RootID} : Reached(n) /\ ~Missing(n)}

LinkTagText == <<"<", "l", "i", "n", "k", " ", "r", "e", "l", "=", "\"", "s", "t", "y", "l", "e", "s", "h", "e", "e", "t", "\"", " ", "h", "r", "e", "f", "=", "\"", "c", "s", "s", "/", "s", "t", "y", "l", "e", "s", ".", "c", "s", "s", "\"", ">">>

\* C8: when a rendered component's template has a styles (script) marker and a CSS
\* (JS) asset was ingested, the assembled HTML contains the link tag (the script
\* tags) put in for the marker.
C8_MarkerReplacedByTags ==
    (pc = "assembled" /\ ~tree.nil /\ ~out.err) =>
        /\ ((\E n \in Rendered : HasType(NodeTokens(n), "Style")) /\ DOMAIN mgr.css # {})
              => Index(out.result.HTML, LinkTagText) # -1
        /\ ((\E n \in Rendered : HasType(NodeTokens(n), "Script")) /\ DOMAIN mgr.js # {})
              => \A t \in GetAssetTags(mgr, <<>>) : \A i \in 1..Len(t.names) :
                    Index(out.result.HTML, scriptTag(<<"j", "s", "/">> \o t.names[i])) # -1

\* the lines of the text after the first, up to the next block line
OwnLines == LET ls == LinesOf(content) IN SubSeq(ls, 2, Len(ls))

\* the value of the first line of the block that assigns the variable, nothing if none
FirstAssigned(name) ==
    LET pre == <<".">> \o name \o <<"=">>
        at  == {i \in 1..Len(OwnLines) : HasPrefix(OwnLines[i], pre)}
    IN  IF at = {} THEN <<>> ELSE SubSeq(OwnLines[SetMin(at)], Len(pre) + 1, Len(OwnLines[SetMin(at)]))

\* a template of text, variable reads and insertion points with every read replaced
RECURSIVE Substituted(_)
Substituted(tokens) ==
    IF tokens = <<>> THEN <<>>
    ELSE (IF Head(tokens).Type = "Text" THEN Head(tokens).Content
          ELSE IF Head(tokens).Type = "Var" THEN FirstAssigned(Head(tokens).Content)
          ELSE <<>>) \o Substituted(Tail(tokens))

\* the tree is one node, its component is loaded and has no CSS and no JS, and its
\* template is text, variable reads and insertion points
SingleBareNode ==
    /\ ~tree.nil
    /\ Len(tree.blocks) = 1
    /\ AcceptedAt(content) = {1}
    /\ ~Missing(0)
    /\ loaded[NodePath(0)].Styles = <<>>
    /\ DOMAIN loaded[NodePath(0)].Scripts = {}
    /\ \A i \in 1..Len(NodeTokens(0)) : NodeTokens(0)[i].Type \in {"Text", "Var", "Component"}

\* C9: outside a range a variable read writes the first value bound to the name and
\* nothing when the name is unbound, so a tree of one node without children whose
\* component has no CSS or JS assembles to its template with every read replaced by
\* the first value, and no asset file.
C9_VarReadsFirstValue ==
    (pc = "assembled" /\ SingleBareNode) =>
        /\ ~out.err
        /\ out.result.HTML = Substituted(NodeTokens(0))
        /\ out.result.Files = EmptyMap

\* C9's case: a variable bound twice to different values, and one unbound
C9_Witness ==
    /\ pc = "assembled"
    /\ SingleBareNode
    /\ <<"x">> \in DOMAIN tree.blocks[1].Vars
    /\ Len(tree.blocks[1].Vars[<<"x">>]) = 2
    /\ tree.blocks[1].Vars[<<"x">>][1] # tree.blocks[1].Vars[<<"x">>][2]
    /\ <<"y">> \notin DOMAIN tree.blocks[1].Vars
    /\ HasType(NodeTokens(0), "Var")

\* C14: in every tree New returns, every variable name of a node is bound to a
\* sequence with at least one value, so the read of the first value for a bound
\* Var token is defined.
C14_BoundVarsHaveValue ==
    (pc = "parsed" /\ ~tree.nil) =>
        \A i \in 1..Len(tree.blocks) : \A name \in DOMAIN tree.blocks[i].Vars :
            /\ Len(tree.blocks[i].Vars[name]) >= 1
            /\ firstValue(tree.blocks[i].Vars, name) = tree.blocks[i].Vars[name][1]

\* C14's case: a tree with a variable that was given a value and then another
C14_Witness ==
    /\ pc = "parsed"
    /\ ~tree.nil
    /\ \E i \in 1..Len(tree.blocks) : \E name \in DOMAIN tree.blocks[i].Vars :
          /\ Len(tree.blocks[i].Vars[name]) = 2
          /\ tree.blocks[i].Vars[name][1] # tree.blocks[i].Vars[name][2]

----------------------------------------------------------------------------
(* package builder: Build over the blueprints of the source directory *)

\* most lines of a blueprint file
MaxBuildLines == 2

BuildLineSet ==
    { <<"1", " ", "a">>,
      <<"1", ".", "1", " ", "b">>,
      <<"1", " ", "b">>,
      <<"2", " ", "e">>,
      <<"1", ".", "1", " ", "n">>,
      <<".", "x", "=", "v">> }

BuildTexts ==
    {Join(ls, <<"\n">>) : ls \in UNION {[1..n -> BuildLineSet] : n \in 1..MaxBuildLines}}

\* the blueprints ListBlueprints finds: one file p, or p and a second file q
BlueprintSets ==
    {{[name |-> <<"p">>, text |-> t]} : t \in BuildTexts}
        \cup {{[name |-> <<"p">>, text |-> t], [name |-> <<"q">>, text |-> <<"1", " ", "b">>]} :
                 t \in BuildTexts}

BuildInit ==
    /\ pc = "build"
    /\ content = <<>>
    /\ tree = NilTree
    /\ tmpl = <<>>
    /\ nodeVars = EmptyMap
    /\ loaded = EmptyMap
    /\ nextInst = 1
    /\ calls = <<>>
    /\ returns = <<>>
    /\ mgr = NewManager
    /\ ingested = <<>>
    /\ proc = NewProcessor
    /\ out = <<>>
    /\ written = <<>>
    /\ todo \in BlueprintSets
    /\ cur = NoBlueprint

\* Build's loop: the range over the blueprints map takes one not yet processed
BuildTake ==
    /\ pc = "build"
    /\ \E b \in todo :
          /\ cur' = b
          /\ todo' = todo \ {b}
    /\ pc' = "read"
    /\ UNCHANGED <<content, tree, loaded, nextInst, calls, returns, mgr, ingested, proc, tmpl,
                   nodeVars, out, written>>

\* Build returns nil once every blueprint is processed
BuildDone ==
    /\ pc = "build"
    /\ todo = {}
    /\ pc' = "done"
    /\ UNCHANGED <<content, tree, loaded, nextInst, calls, returns, mgr, ingested, proc, tmpl,
                   nodeVars, out, written, todo, cur>>

\* processBlueprint: ReadBlueprint, which can fail, then a new registry and processor
BuildRead ==
    /\ pc = "read"
    /\ \E ok \in BOOLEAN :
          IF ok THEN /\ content' = cur.text
                     /\ pc' = "start"
          ELSE /\ content' = <<>>
               /\ pc' = "failed"
    /\ tree' = NilTree
    /\ loaded' = EmptyMap
    /\ calls' = <<>>
    /\ returns' = <<>>
    /\ mgr' = NewManager
    /\ proc' = NewProcessor
    /\ out' = <<>>
    /\ UNCHANGED <<nextInst, ingested, tmpl, nodeVars, written, todo, cur>>

\* loadComponents going no deeper than the root's children
preorderTop(t, n) == IF n = RootID THEN t.kids[RootID] ELSE <<n>>

\* the nodes of a tree in the order loadComponents visits them: a node, then its
\* children's subtrees in order
RECURSIVE preorder(_, _)
preorder(t, n) ==
    (IF n = RootID THEN <<>> ELSE <<n>>)
        \o Concat([i \in 1..Len(t.kids[n]) |-> preorder(t, t.kids[n][i])])

\* loadComponents: Load for each node in turn, stopping at the first error
RECURSIVE loadEach(_, _, _, _)
loadEach(t, nodes, reg, rets) ==
    IF nodes = <<>> THEN [reg |-> reg, rets |-> rets, err |-> FALSE]
    ELSE LET path == t.blocks[Head(nodes) + 1].Path
             \* r is the one result of this node's Load call
             next(r) ==
                 LET reg2 == [loaded |-> r.loaded, nextInst |-> r.nextInst, calls |-> r.calls]
                     ret2 == Append(rets, Returned("Load", path, r.comp, r.err, r))
                 IN  IF r.err THEN [reg |-> reg2, rets |-> ret2, err |-> TRUE]
                     ELSE loadEach(t, Tail(nodes), reg2, ret2)
         IN  CHOOSE res \in {next(r) : r \in {Load(reg, path)}} : TRUE

loadComponents(t, reg, rets) ==
    IF t.nil THEN [reg |-> reg, rets |-> rets, err |-> FALSE]
    ELSE loadEach(t, preorder(t, RootID), reg, rets)

\* processBlueprint: loadComponents(tree)
BuildLoadComponents ==
    /\ pc = "parsed"
    /\ LET l == loadComponents(tree, Registry, returns)
       IN  /\ loaded' = l.reg.loaded
           /\ nextInst' = l.reg.nextInst
           /\ calls' = l.reg.calls
           /\ returns' = l.rets
           /\ pc' = IF l.err THEN "failed" ELSE "loaded"
    /\ UNCHANGED <<content, tree, mgr, ingested, proc, tmpl, nodeVars, out, written, todo, cur>>

\* processBlueprint: processor.Assembler(tree)
BuildAssembler ==
    /\ pc = "loaded"
    /\ \E r \in Assembler(TreeCtx, ProcState(mgr, proc)) :
          /\ out' = [result |-> r.result, err |-> r.err, errs |-> r.errs]
          /\ Leaves(r.st)
          /\ pc' = IF r.err THEN "failed" ELSE "assembled"
    /\ UNCHANGED <<content, tree, loaded, nextInst, calls, returns, ingested, tmpl, nodeVars,
                   written, todo, cur>>

\* the directory writeOutput puts an asset file in
assetDir(name) ==
    IF Ext(name) = CssExt THEN <<"c", "s", "s">>
    ELSE IF Ext(name) = JsExt THEN <<"j", "s">>
    ELSE <<"a", "s", "s", "e", "t", "s">>

\* Builder.writeOutput: the files handed to Storage.WriteOutput
outputFiles(outputRel, result) ==
    [f \in {filepathJoin(<<assetDir(n), n>>) : n \in DOMAIN result.Files} |->
        result.Files[CHOOSE n \in DOMAIN result.Files : filepathJoin(<<assetDir(n), n>>) = f]]
    @@ (TrimPrefix(outputRel, <<"b", "l", "u", "e", "p", "r", "i", "n", "t", "s", "/">>) \o HtmlExt :> result.HTML)

\* the output path ListBlueprints gives a blueprint file of the blueprints directory
outputRelOf(name) == filepathJoin(<<<<"b", "l", "u", "e", "p", "r", "i", "n", "t", "s">>, name>>)

\* processBlueprint: writeOutput, whose WriteOutput can fail
BuildWriteOutput ==
    /\ pc = "assembled"
    /\ written' = Append(written, [name  |-> cur.name,
                                   text  |-> cur.text,
                                   files |-> outputFiles(outputRelOf(cur.name), out.result)])
    /\ \E ok \in BOOLEAN : pc' = IF ok THEN "build" ELSE "failed"
    /\ UNCHANGED <<content, tree, loaded, nextInst, calls, returns, mgr, ingested, proc, tmpl,
                   nodeVars, out, todo, cur>>

BuildNext ==
    \/ BuildTake
    \/ BuildDone
    \/ BuildRead
    \/ DoNew
    \/ BuildLoadComponents
    \/ BuildAssembler
    \/ BuildWriteOutput

SpecBuild == BuildInit /\ [][BuildNext]_state

\* C10: a blueprint whose text has a duplicate block index is a fatal failure:
\* processBlueprint returns an error, Build aborts, and WriteOutput is never called
\* for that blueprint.
C10_DuplicateIndexAbortsBuild ==
    /\ \A i \in 1..Len(written) : ~Collision(written[i].text)
    /\ pc = "done" => ~Collision(cur.text)

\* the nodes of the tree but the root
TreeNodes == DOMAIN tree.kids \ {RootID}

\* C13: processBlueprint issues Load for the path of every node but the root before
\* Assembler begins; when a Load fails neither Assembler nor WriteOutput runs for
\* the blueprint; so when Assembler runs Get returns a component for every node
\* and no placeholder of a missing component is written.
C13_LoadsBeforeAssembler ==
    /\ pc \in {"loaded", "assembled"} =>
          \A n \in TreeNodes :
             /\ \E i \in 1..Len(returns) :
                    returns[i].op = "Load" /\ returns[i].path = NodePath(n) /\ ~returns[i].err
             /\ Get(Registry, NodePath(n)) # NilComp
    /\ (\E i \in 1..Len(returns) : returns[i].err) =>
          /\ pc = "failed"
          /\ DOMAIN out = {}
          /\ \A i \in 1..Len(written) : written[i].name # cur.name
    /\ pc = "assembled" =>
          /\ ~out.err
          /\ out.errs = <<>>
          /\ proc.errLines = <<>>
          /\ \A n \in TreeNodes :
                 Index(out.result.HTML, Open \o NodePath(n) \o Close) = -1
    /\ pc = "failed" => (DOMAIN out = {} \/ ~out.err)

\* C13's case: Assembler has run on a tree with a node under another node, after a
\* Load for each of the two
C13_Witness ==
    /\ pc = "assembled"
    /\ \E n \in TreeNodes : ParentOf(n) # RootID
    /\ Len(returns) >= 2
    /\ Len(out.result.HTML) > 0

====
